---- MODULE Spec2Model ----
(***************************************************************************)
(* A model of AL::ArrayList<T> (src/ArrayList.hpp): a growable array that   *)
(* owns a heap buffer m_data of m_capacity slots, of which the first        *)
(* m_size are in use.                                                       *)
(*                                                                          *)
(* Positions (iterators, which wrap raw pointers) are modelled as integer   *)
(* offsets from m_data; index i of the C++ buffer is index i+1 of the       *)
(* sequence that models it.  Each member function is one action.            *)
(*                                                                          *)
(* Iterator has no operator+, so `pos + 1`, `begin() + size()` (lines 589,  *)
(* 721) do not compile as written, and line 430 lacks the name of the       *)
(* algorithm (`std::(...)`); they are modelled as the pointer arithmetic    *)
(* and the std::copy that they evidently stand for.                         *)
(***************************************************************************)
EXTENDS Integers, Sequences, FiniteSets, TLC

\* ---------------------------------------------------------------- bounds
HeapCells    == 4  \* heap slots a program with one container may hold
HeapCellsTwo == 3  \* heap slots a program with two containers may hold
MaxBufs      == 3  \* heap blocks that may be allocated when a call returns

\* T is instantiated with a type of two values; value_type{} is 0.
Values == {0, 1}
Objs   == {1, 2}

\* The blocks a call holds at most on top of those it leaves: a + b holds
\* its temporary and the container it returns.
Temporaries == 2

\* The addresses of heap blocks.
BufIds == 1..(MaxBufs + Temporaries)
NULL   == 0

VARIABLES
  obj,      \* obj[o]: the fields of container o (and whether it is constructed)
  heap,     \* heap[p]: the block at address p: allocated or not, and its slots
  memory,   \* the number of slots the heap of this run can hold
  watch,    \* the calls this run keeps a record of in lastCall
  lastCall, \* the last call: its arguments, outcome and the state before it
  halted    \* the process was killed by undefined behaviour

vars == <<obj, heap, memory, watch, lastCall, halted>>

\* ---------------------------------------------------------------- helpers
Default == 0

\* new value_type[n]{}: n value-initialised slots
Zeroed(n) == [i \in 1..n |-> Default]

\* new value_type[n]: n slots of indeterminate value.  Indeterminate is no
\* value of T: it marks a slot that has not been written.
Indeterminate == -1
Uninitialised(n) == [i \in 1..n |-> Indeterminate]

\* What the slots of a buffer of n slots may hold after undefined behaviour
\* has written to it.
Overwritten(n) == [1..n -> Values]

\* A copy that stops one element early.
StdCopyShort(src, first, last, dst, d_first) ==
  [i \in 1..Len(dst) |->
     IF d_first < i /\ i < d_first + (last - first)
     THEN src[first + (i - d_first)] ELSE dst[i]]

\* std::copy(first, last, d_first) from buffer src into buffer dst; first,
\* last and d_first are offsets.  Element by element, front to back.
StdCopy(src, first, last, dst, d_first) ==
  [i \in 1..Len(dst) |->
     IF d_first < i /\ i <= d_first + (last - first)
     THEN src[first + (i - d_first)] ELSE dst[i]]

\* std::copy_backward(first, last, d_last) inside one buffer, back to front.
StdCopyBackward(buf, first, last, d_last) ==
  [i \in 1..Len(buf) |->
     IF d_last - (last - first) < i /\ i <= d_last
     THEN buf[i - (d_last - last)] ELSE buf[i]]

\* The first n slots of s.
Take(s, n) == [i \in 1..n |-> s[i]]

\* buf[i] = value, for offset i
Store(buf, i, value) == [j \in 1..Len(buf) |-> IF j = i + 1 THEN value ELSE buf[j]]

\* A container that is not constructed (before construction, after ~ArrayList).
Dead == [live |-> FALSE, m_capacity |-> 0, m_size |-> 0, m_data |-> NULL]

\* The state std::exchange leaves a moved-from container in.
MovedFrom == [live |-> TRUE, m_capacity |-> 0, m_size |-> 0, m_data |-> NULL]

FreeBlock == [alloc |-> FALSE, cells |-> <<>>]

\* The slots of the buffer c points to (none for a null pointer).
Cells(h, c) == IF c.m_data = NULL THEN <<>> ELSE h[c.m_data].cells

\* [begin(), end()): the elements in use.
Elems(h, c) == Take(Cells(h, c), c.m_size)

\* operator new[]: the block handed out (the lowest free address).
HasFree(h) == \E p \in BufIds : ~h[p].alloc
NewBlock(h) == CHOOSE p \in BufIds : ~h[p].alloc /\ \A q \in BufIds : q < p => h[q].alloc
Alloc(h, p, cells) == [h EXCEPT ![p] = [alloc |-> TRUE, cells |-> cells]]

\* delete[] p (a no-op on the null pointer)
Delete(h, p) == IF p = NULL THEN h ELSE [h EXCEPT ![p] = FreeBlock]

\* The heap is finite: the slots of the allocated blocks.
RECURSIVE SlotsUpTo(_, _)
SlotsUpTo(h, n) == IF n = 0 THEN 0 ELSE Len(h[n].cells) + SlotsUpTo(h, n - 1)
Fits(h) ==
  /\ SlotsUpTo(h, MaxBufs + Temporaries) <= memory
  /\ Cardinality({p \in BufIds : h[p].alloc}) <= MaxBufs

\* What the heap may hold after undefined behaviour has written through it:
\* the allocated blocks with their slots overwritten, slot by slot, with junk
\* (one value for every slot of the heap, in the order of the addresses).
Scribble(h, junk) ==
  [p \in BufIds |->
     [h[p] EXCEPT !.cells = [i \in 1..Len(@) |-> junk[SlotsUpTo(h, p - 1) + i]]]]

\* What a caller can observe of container o.
View(o) == [live  |-> obj[o].live,
            size  |-> obj[o].m_size,
            cap   |-> obj[o].m_capacity,
            null  |-> obj[o].m_data = NULL,
            elems |-> Elems(heap, obj[o])]

NoUndo == <<-1>>
NoRun  == <<-1>>
NoCall == [op |-> "none", a |-> 0, b |-> 0, k |-> 0, v |-> 0, res |-> "ok",
           ret |-> 0, out |-> <<>>, realloc |-> FALSE, ub |-> FALSE,
           undo |-> NoUndo, run |-> NoRun,
           from |-> [o \in Objs |-> 0],
           pre |-> [o \in Objs |-> [live |-> FALSE, size |-> 0, cap |-> 0,
                                    null |-> TRUE, elems |-> <<>>]]]

\* The record of a call of op on container a (with b, k, v as arguments).
Call(op, a, b, k, v, res) ==
  [NoCall EXCEPT !.op = op, !.a = a, !.b = b, !.k = k, !.v = v, !.res = res,
                 !.pre = [o \in Objs |-> View(o)]]

\* The program compares addresses only for equality, so the blocks are kept
\* in one order: the buffers of the containers first (in the order of the
\* containers), then the blocks no container points to, then the free ones.
\* Order is the sequence of the addresses in this order.
RECURSIVE OwnedUpTo(_, _)
OwnedUpTo(ob, n) ==
  IF n = 0 THEN <<>>
  ELSE LET rest == OwnedUpTo(ob, n - 1)
           p    == ob[n].m_data
       IN IF p = NULL \/ \E i \in 1..Len(rest) : rest[i] = p
          THEN rest ELSE Append(rest, p)

Addresses == [p \in BufIds |-> p]

Order(ob, h) ==
  LET Lost(p) == h[p].alloc /\ \A o \in Objs : ob[o].m_data # p
      Free(p) == ~h[p].alloc
  IN OwnedUpTo(ob, Cardinality(Objs))
       \o SelectSeq(Addresses, Lost) \o SelectSeq(Addresses, Free)

\* The call returns: ob and h are the containers and the heap it leaves, rec
\* its record.  from[o] is the container whose buffer o holds now (0 for no
\* buffer, -1 for a block that no container held before the call).
Moved(ob, h, rec, order) ==
  /\ obj' = [o \in Objs |->
               [ob[o] EXCEPT !.m_data =
                  IF @ = NULL THEN NULL
                  ELSE CHOOSE i \in BufIds : order[i] = ob[o].m_data]]
  /\ heap' = [i \in BufIds |-> h[order[i]]]
  /\ lastCall' = IF rec.op \notin watch THEN NoCall ELSE
        [rec EXCEPT !.from =
           [o \in Objs |->
              IF ob[o].m_data = NULL THEN 0
              ELSE IF \E x \in Objs : obj[x].m_data = ob[o].m_data
                   THEN CHOOSE x \in Objs : obj[x].m_data = ob[o].m_data
                   ELSE 0 - 1]]

Return(ob, h, rec) == Moved(ob, h, rec, Order(ob, h))

\* A call that changes neither a container nor the heap.
NoEffect(rec) ==
  /\ lastCall' = IF rec.op \notin watch THEN NoCall ELSE
                    [rec EXCEPT !.from =
                       [o \in Objs |-> IF obj[o].m_data = NULL THEN 0 ELSE o]]
  /\ UNCHANGED <<obj, heap>>

\* The calls, by the number of containers they take.
Constructions == {"construct", "construct_list", "copy_construct",
                  "move_construct", "destroy"}
Unary  == {"at", "assign", "push_back", "insert", "erase", "resize", "clear"}
Binary == {"swap", "copy_assign", "move_assign", "plus_assign", "plus"}

\* ---------------------------------------------------------------- Init
Init ==
  /\ obj = [o \in Objs |-> Dead]
  /\ heap = [p \in BufIds |-> FreeBlock]
  /\ memory = HeapCellsTwo
  /\ watch = Constructions \cup Binary
  /\ lastCall = NoCall
  /\ halted = FALSE

\* ---------------------------------------------------------------- constructors
\* The call on container o leaves it with the fields r.c, and the heap r.h.
Apply(o, r, rec) ==
  /\ Fits(r.h)
  /\ Return([obj EXCEPT ![o] = r.c], r.h, rec)

\* ArrayList(size_type count = 0): the fields and the heap after it.
CountCtor(h, count) ==
  LET p == NewBlock(h) IN
  [c |-> [live |-> TRUE, m_capacity |-> count, m_size |-> count, m_data |-> p],
   h |-> Alloc(h, p, Zeroed(count))]

Construct(o, count) ==
  /\ ~halted /\ UNCHANGED <<memory, watch>> /\ ~obj[o].live /\ HasFree(heap)
  /\ Apply(o, CountCtor(heap, count), Call("construct", o, 0, count, 0, "ok"))
  /\ UNCHANGED halted

\* ArrayList(const std::initializer_list<value_type>& source)
ListCtor(h, source) ==
  LET r == CountCtor(h, Len(source)) IN
  [c |-> r.c,
   h |-> [r.h EXCEPT ![r.c.m_data].cells =
            StdCopy(source, 0, Len(source), Cells(r.h, r.c), 0)]]

ConstructList(o, source) ==
  /\ ~halted /\ UNCHANGED <<memory, watch>> /\ ~obj[o].live /\ HasFree(heap)
  /\ Apply(o, ListCtor(heap, source),
           [Call("construct_list", o, 0, Len(source), 0, "ok")
              EXCEPT !.out = source])
  /\ UNCHANGED halted

\* ArrayList(const ArrayList& other)
CopyCtor(h, other) ==
  LET r == CountCtor(h, other.m_size) IN
  [c |-> r.c,
   h |-> [r.h EXCEPT ![r.c.m_data].cells =
            StdCopy(Cells(h, other), 0, other.m_size, Cells(r.h, r.c), 0)]]

CopyConstruct(o, b) ==
  /\ ~halted /\ UNCHANGED <<memory, watch>> /\ ~obj[o].live /\ obj[b].live /\ HasFree(heap)
  /\ Apply(o, CopyCtor(heap, obj[b]), Call("copy_construct", o, b, 0, 0, "ok"))
  /\ UNCHANGED halted

\* ArrayList(ArrayList&& other): std::exchange on the three fields
MoveConstruct(o, b) ==
  /\ ~halted /\ UNCHANGED <<memory, watch>> /\ ~obj[o].live /\ obj[b].live
  /\ Return([obj EXCEPT ![o] = obj[b], ![b] = MovedFrom], heap,
            Call("move_construct", o, b, 0, 0, "ok"))
  /\ UNCHANGED halted

\* ~ArrayList(): delete[] m_data
Destroy(o) ==
  /\ ~halted /\ UNCHANGED <<memory, watch>> /\ obj[o].live
  /\ Return([obj EXCEPT ![o] = Dead], Delete(heap, obj[o].m_data),
            Call("destroy", o, 0, 0, 0, "ok"))
  /\ UNCHANGED halted

\* ---------------------------------------------------------------- at
\* A range check that also refuses the last element.
AtOutOfRangeEarly(pos, size) == pos + 1 > size \/ pos + 1 = size

\* at(pos): the range check of lines 467 and 478
AtOutOfRange(pos, size) == pos > size \/ pos = size

At(o, pos) ==
  /\ ~halted /\ UNCHANGED <<memory, watch>> /\ obj[o].live
  /\ NoEffect(IF AtOutOfRange(pos, obj[o].m_size)
              THEN Call("at", o, 0, pos, 0, "out_of_range")
              ELSE [Call("at", o, 0, pos, 0, "ok") EXCEPT
                      !.ret = Cells(heap, obj[o])[pos + 1]])
  /\ UNCHANGED halted

\* at(pos) = value: a write through the reference at() returns
Assign(o, pos, value) ==
  /\ ~halted /\ UNCHANGED <<memory, watch>> /\ obj[o].live
  /\ IF AtOutOfRange(pos, obj[o].m_size)
     THEN NoEffect(Call("assign", o, 0, pos, value, "out_of_range"))
     ELSE Return(obj, [heap EXCEPT ![obj[o].m_data].cells =
                         Store(Cells(heap, obj[o]), pos, value)],
                 Call("assign", o, 0, pos, value, "ok"))
  /\ UNCHANGED halted

\* operator==(lhs, rhs): std::equal over [begin(), end()) of both
Equal(h, lhs, rhs) ==
  /\ lhs.m_size = rhs.m_size
  /\ \A i \in 1..lhs.m_size : Cells(h, lhs)[i] = Cells(h, rhs)[i]

\* ---------------------------------------------------------------- push_back
\* Growth by one slot instead of doubling.
GrowByOne(c) == c + 1

\* capacity() == 0 ? 1 : m_capacity * 2
GrowCapacity(c) == IF c = 0 THEN 1 ELSE c * 2

\* size() == capacity()
Full(c) == c.m_size = c.m_capacity

\* The reallocation of push_back (lines 504-513) and of insert (lines
\* 547-554): a zeroed block of the grown capacity, the elements copied into
\* it, the old block deleted.
Grown(h, c) ==
  LET newcap == GrowCapacity(c.m_capacity)
      p      == NewBlock(h)
      temp   == StdCopy(Cells(h, c), 0, c.m_size, Zeroed(newcap), 0)
  IN [c |-> [c EXCEPT !.m_capacity = newcap, !.m_data = p],
      h |-> Delete(Alloc(h, p, temp), c.m_data)]

\* push_back(value) on a container with fields c: the fields and the heap
\* afterwards.
PushedBack(h, c, value) ==
  LET r == IF Full(c) THEN Grown(h, c) ELSE [c |-> c, h |-> h] IN
  [c |-> [r.c EXCEPT !.m_size = c.m_size + 1],
   h |-> [r.h EXCEPT ![r.c.m_data].cells = Store(Cells(r.h, r.c), c.m_size, value)]]

\* The values appended by the push_back calls made on container o in a row
\* since it was empty, this one (of value) included; NoRun when another call
\* came in between.
RunAfter(o, value) ==
  IF obj[o].m_size = 0 THEN <<value>>
  ELSE IF lastCall.op = "push_back" /\ lastCall.a = o /\ lastCall.run # NoRun
       THEN Append(lastCall.run, value)
  ELSE NoRun

PushBack(o, value) ==
  /\ ~halted /\ UNCHANGED <<memory, watch>> /\ obj[o].live
  /\ Full(obj[o]) => HasFree(heap)
  /\ Apply(o, PushedBack(heap, obj[o], value),
           [Call("push_back", o, 0, 0, value, "ok")
              EXCEPT !.realloc = Full(obj[o]), !.run = RunAfter(o, value)])
  /\ UNCHANGED halted

\* ---------------------------------------------------------------- insert
\* std::copy_backward(pos, z, ++z): the order in which the second and third
\* argument are evaluated is unspecified; order is "left_first" when `z` is
\* read before `++z` takes effect and "right_first" when it is read after.
EvalOrders == {"left_first", "right_first"}
InsertLast(z, order) == IF order = "left_first" THEN z ELSE z + 1

\* lines 558-561 on a buffer that was not reallocated: the slots afterwards
InsertShift(cells, k, z, value, order) ==
  Store(StdCopyBackward(cells, k, InsertLast(z, order), z + 1), k, value)

\* A range check without the lower bound.
InsertOutOfRangeAbove(k, size) == k > size

\* the range checks of lines 534 and 539
InsertOutOfRange(k, size) == k < 0 \/ k > size

\* insert(pos, value) with pos at offset k, on a container that is not full
InsertedInPlace(h, c, k, value, order) ==
  [c |-> [c EXCEPT !.m_size = c.m_size + 1],
   h |-> [h EXCEPT ![c.m_data].cells =
            InsertShift(Cells(h, c), k, c.m_size, value, order)]]

\* The elements container o had before the last call, when that call erased
\* value at offset k from it; NoUndo otherwise.
UndoOf(o, k, value) ==
  IF /\ lastCall.op = "erase" /\ lastCall.a = o
     /\ lastCall.res = "ok" /\ ~lastCall.ub /\ lastCall.k = k
     /\ lastCall.pre[o].elems[k + 1] = value
  THEN lastCall.pre[o].elems ELSE NoUndo

\* insert on a full container, reallocated to r: pos is reacquired in the new
\* buffer (line 555) but z still points into the deleted one, so
\* copy_backward(pos, z, ++z) walks the heap from the one buffer to the
\* other, over the blocks that lie between them: undefined behaviour.  Either
\* the process dies in it, or the call returns with slots of the heap
\* overwritten.
InsertDangling(o, k, value, r) ==
  /\ Fits(r.h)
  /\ \/ /\ Return([obj EXCEPT ![o] = r.c], r.h,
                  [Call("insert", o, 0, k, value, "crash")
                     EXCEPT !.realloc = TRUE, !.ub = TRUE])
        /\ halted' = TRUE
     \/ \E junk \in Overwritten(SlotsUpTo(r.h, MaxBufs + Temporaries)) :
        /\ Return([obj EXCEPT ![o] = [r.c EXCEPT !.m_size = @ + 1]],
                  Scribble(r.h, junk),
                  [Call("insert", o, 0, k, value, "ok")
                     EXCEPT !.realloc = TRUE, !.ub = TRUE,
                            !.ret = k, !.undo = UndoOf(o, k, value)])
        /\ halted' = halted

Insert(o, k, value) ==
  /\ ~halted /\ UNCHANGED <<memory, watch>> /\ obj[o].live
  /\ IF InsertOutOfRange(k, obj[o].m_size)
     THEN /\ NoEffect(Call("insert", o, 0, k, value, "out_of_range"))
          /\ UNCHANGED halted
     ELSE IF Full(obj[o])
     THEN /\ HasFree(heap)
          /\ InsertDangling(o, k, value, Grown(heap, obj[o]))
     ELSE \E order \in EvalOrders :
          /\ Apply(o, InsertedInPlace(heap, obj[o], k, value, order),
                   [Call("insert", o, 0, k, value, "ok")
                      EXCEPT !.ret = k, !.undo = UndoOf(o, k, value)])
          /\ UNCHANGED halted

\* ---------------------------------------------------------------- erase
\* the range checks of lines 578 and 583
EraseOutOfRange(k, size) == (k < 0 \/ k = 0) \/ k > size

\* An erase that forgets to shift.
EraseNoShift(cells, k, size) == cells

\* std::copy(pos + 1, end(), pos)
EraseShift(cells, k, size) == StdCopy(cells, k + 1, size, cells, k)

\* erase(pos) with pos at offset k inside [begin() + 1, end())
Erased(h, c, k) ==
  [c |-> [c EXCEPT !.m_size = c.m_size - 1],
   h |-> [h EXCEPT ![c.m_data].cells = EraseShift(Cells(h, c), k, c.m_size)]]

Erase(o, k) ==
  /\ ~halted /\ UNCHANGED <<memory, watch>> /\ obj[o].live
  /\ IF EraseOutOfRange(k, obj[o].m_size)
     THEN /\ NoEffect(Call("erase", o, 0, k, 0, "out_of_range"))
          /\ UNCHANGED halted
     ELSE IF k = obj[o].m_size
     THEN \* pos == end(): std::copy(pos + 1, end(), pos) starts behind its
          \* end and never meets it: undefined behaviour, as in insert.
          \/ /\ NoEffect([Call("erase", o, 0, k, 0, "crash") EXCEPT !.ub = TRUE])
             /\ halted' = TRUE
          \/ \E junk \in Overwritten(obj[o].m_capacity) :
             /\ Return([obj EXCEPT ![o].m_size = @ - 1],
                       [heap EXCEPT ![obj[o].m_data].cells = junk],
                       [Call("erase", o, 0, k, 0, "ok")
                          EXCEPT !.ub = TRUE, !.ret = k])
             /\ UNCHANGED halted
     ELSE /\ Apply(o, Erased(heap, obj[o], k),
                   [Call("erase", o, 0, k, 0, "ok") EXCEPT !.ret = k])
          /\ UNCHANGED halted

\* ---------------------------------------------------------------- resize
\* A resize that copies no element into the new block.
ResizedNoCopy(h, c, count) ==
  LET p == NewBlock(h)
  IN [c |-> [c EXCEPT !.m_data = p, !.m_capacity = count, !.m_size = count],
      h |-> Delete(Alloc(h, p, Zeroed(count)), c.m_data)]

\* A resize that never gives up capacity.
ResizedKeepsCapacity(h, c, count) ==
  LET p      == NewBlock(h)
      newcap == IF count < c.m_capacity THEN c.m_capacity ELSE count
      limit  == IF count < c.m_size THEN count ELSE c.m_size
      temp   == StdCopy(Cells(h, c), 0, limit, Zeroed(newcap), 0)
  IN [c |-> [c EXCEPT !.m_data = p, !.m_capacity = newcap, !.m_size = count],
      h |-> Delete(Alloc(h, p, temp), c.m_data)]

\* resize(count) when size() != count: the fields and the heap afterwards
Resized(h, c, count) ==
  LET p     == NewBlock(h)
      limit == IF count < c.m_size THEN count ELSE c.m_size
      temp  == StdCopy(Cells(h, c), 0, limit, Zeroed(count), 0)
  IN [c |-> [c EXCEPT !.m_data = p, !.m_capacity = count, !.m_size = count],
      h |-> Delete(Alloc(h, p, temp), c.m_data)]

Resize(o, count) ==
  /\ ~halted /\ UNCHANGED <<memory, watch>> /\ obj[o].live
  /\ IF obj[o].m_size # count
     THEN /\ HasFree(heap)
          /\ Apply(o, Resized(heap, obj[o], count),
                   [Call("resize", o, 0, count, 0, "ok") EXCEPT !.realloc = TRUE])
     ELSE NoEffect(Call("resize", o, 0, count, 0, "ok"))
  /\ UNCHANGED halted

\* ---------------------------------------------------------------- clear, swap
Clear(o) ==
  /\ ~halted /\ UNCHANGED <<memory, watch>> /\ obj[o].live
  /\ Return([obj EXCEPT ![o].m_size = 0], heap, Call("clear", o, 0, 0, 0, "ok"))
  /\ UNCHANGED halted

Swap(a, b) ==
  /\ ~halted /\ UNCHANGED <<memory, watch>> /\ obj[a].live /\ obj[b].live
  /\ Return([obj EXCEPT ![a] = obj[b], ![b] = obj[a]], heap,
            Call("swap", a, b, 0, 0, "ok"))
  /\ UNCHANGED halted

\* ---------------------------------------------------------------- assignment
\* lines 655-663: the buffer is deleted and one of rhs's capacity allocated
Reallocated(h, c, rhs) ==
  LET h1 == Delete(h, c.m_data)
      p  == NewBlock(h1)
  IN [c |-> [c EXCEPT !.m_data = p, !.m_capacity = rhs.m_capacity, !.m_size = 0],
      h |-> Alloc(h1, p, Zeroed(rhs.m_capacity))]

\* A copy assignment that copies the elements and forgets m_size.
CopyAssignedKeepsSize(h, c, rhs) ==
  LET r == IF c.m_capacity # rhs.m_capacity
           THEN Reallocated(h, c, rhs) ELSE [c |-> c, h |-> h]
  IN [c |-> r.c,
      h |-> IF r.c.m_data = NULL THEN r.h
            ELSE [r.h EXCEPT ![r.c.m_data].cells =
                    StdCopy(Cells(h, rhs), 0, rhs.m_size, Cells(r.h, r.c), 0)]]

\* operator=(const ArrayList& rhs), this != &rhs: the fields and the heap
\* afterwards
CopyAssigned(h, c, rhs) ==
  LET r == IF c.m_capacity # rhs.m_capacity
           THEN Reallocated(h, c, rhs) ELSE [c |-> c, h |-> h]
  IN [c |-> [r.c EXCEPT !.m_size = rhs.m_size],
      h |-> IF r.c.m_data = NULL THEN r.h
            ELSE [r.h EXCEPT ![r.c.m_data].cells =
                    StdCopy(Cells(h, rhs), 0, rhs.m_size, Cells(r.h, r.c), 0)]]

CopyAssign(a, b) ==
  /\ ~halted /\ UNCHANGED <<memory, watch>> /\ obj[a].live /\ obj[b].live
  /\ IF a # b
     THEN /\ obj[a].m_capacity # obj[b].m_capacity =>
               HasFree(Delete(heap, obj[a].m_data))
          /\ Apply(a, CopyAssigned(heap, obj[a], obj[b]),
                   [Call("copy_assign", a, b, 0, 0, "ok") EXCEPT
                      !.realloc = obj[a].m_capacity # obj[b].m_capacity])
     ELSE NoEffect(Call("copy_assign", a, b, 0, 0, "ok"))
  /\ UNCHANGED halted

\* A move assignment that exchanges the two containers.
MoveAssignSwaps(a, b) ==
  /\ ~halted /\ UNCHANGED <<memory, watch>> /\ obj[a].live /\ obj[b].live
  /\ IF a # b
     THEN Return([obj EXCEPT ![a] = obj[b], ![b] = obj[a]], heap,
                 Call("move_assign", a, b, 0, 0, "ok"))
     ELSE NoEffect(Call("move_assign", a, b, 0, 0, "ok"))
  /\ UNCHANGED halted

\* operator=(ArrayList&& other): std::exchange on the three fields; the
\* buffer the target held is not released.
MoveAssign(a, b) ==
  /\ ~halted /\ UNCHANGED <<memory, watch>> /\ obj[a].live /\ obj[b].live
  /\ IF a # b
     THEN Return([obj EXCEPT ![a] = obj[b], ![b] = MovedFrom], heap,
                 Call("move_assign", a, b, 0, 0, "ok"))
     ELSE NoEffect(Call("move_assign", a, b, 0, 0, "ok"))
  /\ UNCHANGED halted

\* ---------------------------------------------------------------- += and +
\* A capacity test that is off by one.
NeedsMoreLate(c, reqd_size) == c.m_capacity + 1 < reqd_size

\* capacity() < reqd_size
NeedsMore(c, reqd_size) == c.m_capacity < reqd_size

\* An append that starts at begin().
AppendAtBegin(c) == 0

\* begin() + size(): the offset other's elements are copied to
AppendOffset(c) == c.m_size

\* operator+=(const ArrayList& other) on a container with fields c, where
\* self says that other is the container itself: the fields and the heap
\* afterwards.
PlusAssigned(h, c, other, self) ==
  LET reqd_size == c.m_size + other.m_size
      grow == NeedsMore(c, reqd_size)
      p    == NewBlock(h)
      h1   == IF grow
              THEN Delete(Alloc(h, p, StdCopy(Cells(h, c), 0, c.m_size,
                                              Uninitialised(reqd_size), 0)),
                          c.m_data)
              ELSE h
      c1   == IF grow THEN [c EXCEPT !.m_data = p, !.m_capacity = reqd_size] ELSE c
      src  == IF self THEN Cells(h1, c1) ELSE Cells(h, other)
      h2   == IF c1.m_data = NULL THEN h1
              ELSE [h1 EXCEPT ![c1.m_data].cells =
                      StdCopy(src, 0, other.m_size, Cells(h1, c1), AppendOffset(c1))]
  IN [c |-> [c1 EXCEPT !.m_size = c.m_size + other.m_size], h |-> h2, grow |-> grow]

PlusAssign(a, b) ==
  /\ ~halted /\ UNCHANGED <<memory, watch>> /\ obj[a].live /\ obj[b].live
  /\ NeedsMore(obj[a], obj[a].m_size + obj[b].m_size) => HasFree(heap)
  /\ Apply(a, PlusAssigned(heap, obj[a], obj[b], a = b),
           [Call("plus_assign", a, b, 0, 0, "ok") EXCEPT
              !.realloc = NeedsMore(obj[a], obj[a].m_size + obj[b].m_size)])
  /\ UNCHANGED halted

\* operator+(lhs, rhs): return ArrayList<T>(lhs) += rhs;  the temporary and
\* the returned copy are destroyed when the full expression ends.  The
\* heap afterwards, the returned container's elements and its size.
Sum(h, lhs, rhs) ==
  LET t1 == CopyCtor(h, lhs)
      t2 == PlusAssigned(t1.h, t1.c, rhs, FALSE)
      t3 == CopyCtor(t2.h, t2.c)
  IN [h   |-> Delete(Delete(t3.h, t3.c.m_data), t2.c.m_data),
      out |-> Elems(t3.h, t3.c),
      ret |-> t3.c.m_size]

Returned(r, rec) == Return(obj, r.h, [rec EXCEPT !.out = r.out, !.ret = r.ret])

Plus(a, b) ==
  /\ ~halted /\ UNCHANGED <<memory, watch>> /\ obj[a].live /\ obj[b].live
  /\ Cardinality({p \in BufIds : ~heap[p].alloc}) >= Temporaries
  /\ Returned(Sum(heap, obj[a], obj[b]), Call("plus", a, b, 0, 0, "ok"))
  /\ UNCHANGED halted

\* The arguments the calls are tried with: every index up to one past
\* size(), and every position from one before begin() to one past end().
Positions(o) == 0..obj[o].m_size + 1
Offsets(o)   == -1..obj[o].m_size + 1

\* A program with the two containers 1 and 2.
Next ==
  \/ \E o \in Objs, n \in 0..memory : Construct(o, n)
  \/ \E o \in Objs, n \in 0..memory : \E s \in [1..n -> Values] : ConstructList(o, s)
  \/ \E o \in Objs, b \in Objs : CopyConstruct(o, b)
  \/ \E o \in Objs, b \in Objs : MoveConstruct(o, b)
  \/ \E o \in Objs : Destroy(o)
  \/ \E o \in Objs : \E pos \in Positions(o) : At(o, pos)
  \/ \E o \in Objs, v \in Values : PushBack(o, v)
  \/ \E o \in Objs : \E k \in Offsets(o), v \in Values : Insert(o, k, v)
  \/ \E o \in Objs : \E k \in Offsets(o) : Erase(o, k)
  \/ \E o \in Objs, n \in 0..memory : Resize(o, n)
  \/ \E o \in Objs : Clear(o)
  \/ \E a \in Objs, b \in Objs : Swap(a, b)
  \/ \E a \in Objs, b \in Objs : CopyAssign(a, b)
  \/ \E a \in Objs, b \in Objs : MoveAssign(a, b)
  \/ \E a \in Objs, b \in Objs : PlusAssign(a, b)
  \/ \E a \in Objs, b \in Objs : Plus(a, b)

Spec == Init /\ [][Next]_vars

\* A program that constructs the one container 1 and calls its member
\* functions that take no other container, with a larger heap.
InitOne ==
  /\ obj = [o \in Objs |-> Dead]
  /\ heap = [p \in BufIds |-> FreeBlock]
  /\ memory = HeapCells
  /\ watch = Constructions \cup Unary
  /\ lastCall = NoCall
  /\ halted = FALSE

NextOne ==
  \/ \E n \in 0..memory : Construct(1, n)
  \/ \E n \in 0..memory : \E s \in [1..n -> Values] : ConstructList(1, s)
  \/ Destroy(1)
  \/ \E pos \in Positions(1) : At(1, pos)
  \/ \E v \in Values : PushBack(1, v)
  \/ \E k \in Offsets(1), v \in Values : Insert(1, k, v)
  \/ \E k \in Offsets(1) : Erase(1, k)
  \/ \E n \in 0..memory : Resize(1, n)
  \/ Clear(1)

SpecOne == InitOne /\ [][NextOne]_vars

\* ---------------------------------------------------------------- bad_alloc
\* The calls below are the reallocating calls when operator new[] throws
\* std::bad_alloc: what the code has done up to its `new` stays done, and the
\* exception reaches the caller.

\* push_back: m_capacity is assigned (line 504) before the `new` of line 505
PushBackNoMemory(o, value) ==
  /\ ~halted /\ UNCHANGED <<memory, watch>> /\ obj[o].live /\ Full(obj[o])
  /\ Return([obj EXCEPT ![o].m_capacity = GrowCapacity(@)], heap,
            Call("push_back", o, 0, 0, value, "bad_alloc"))
  /\ UNCHANGED halted

\* insert: the `new` of line 548 comes before any assignment
InsertNoMemory(o, k, value) ==
  /\ ~halted /\ UNCHANGED <<memory, watch>> /\ obj[o].live
  /\ ~InsertOutOfRange(k, obj[o].m_size) /\ Full(obj[o])
  /\ NoEffect(Call("insert", o, 0, k, value, "bad_alloc"))
  /\ UNCHANGED halted

\* resize: the `new` of line 612 comes before any assignment
ResizeNoMemory(o, count) ==
  /\ ~halted /\ UNCHANGED <<memory, watch>> /\ obj[o].live
  /\ obj[o].m_size # count
  /\ NoEffect(Call("resize", o, 0, count, 0, "bad_alloc"))
  /\ UNCHANGED halted

\* operator=(const ArrayList&): lines 656-660 delete the buffer and reset the
\* three fields before the `new` of line 662
CopyAssignNoMemory(a, b) ==
  /\ ~halted /\ UNCHANGED <<memory, watch>> /\ obj[a].live /\ obj[b].live
  /\ a # b /\ obj[a].m_capacity # obj[b].m_capacity
  /\ Return([obj EXCEPT ![a] = [@ EXCEPT !.m_data = NULL, !.m_capacity = 0,
                                          !.m_size = 0]],
            Delete(heap, obj[a].m_data),
            Call("copy_assign", a, b, 0, 0, "bad_alloc"))
  /\ UNCHANGED halted

\* operator+=: the `new` of line 712 comes before any assignment
PlusAssignNoMemory(a, b) ==
  /\ ~halted /\ UNCHANGED <<memory, watch>> /\ obj[a].live /\ obj[b].live
  /\ NeedsMore(obj[a], obj[a].m_size + obj[b].m_size)
  /\ NoEffect(Call("plus_assign", a, b, 0, 0, "bad_alloc"))
  /\ UNCHANGED halted

\* m_capacity is the number of slots of the block m_data points to.  It is
\* not after a push_back that ran out of memory; the next call that trusts
\* m_capacity would write past the block, and the program below makes no
\* call but the destructor on such a container.
Sound(o) == obj[o].m_capacity = Len(Cells(heap, obj[o]))

\* A program with two containers in which an allocation may fail.
InitAlloc ==
  /\ obj = [o \in Objs |-> Dead]
  /\ heap = [p \in BufIds |-> FreeBlock]
  /\ memory = HeapCellsTwo
  /\ watch = Constructions \cup Unary \cup Binary
  /\ lastCall = NoCall
  /\ halted = FALSE

NextAlloc ==
  \/ \E o \in Objs, n \in 0..memory : \E s \in [1..n -> Values] : ConstructList(o, s)
  \/ \E o \in Objs : Destroy(o)
  \/ \E o \in Objs, v \in Values : Sound(o) /\ PushBack(o, v)
  \/ \E o \in Objs, n \in 0..memory : Sound(o) /\ Resize(o, n)
  \/ \E a \in Objs, b \in Objs : Sound(a) /\ Sound(b) /\ CopyAssign(a, b)
  \/ \E a \in Objs, b \in Objs : Sound(a) /\ Sound(b) /\ PlusAssign(a, b)
  \/ \E o \in Objs, v \in Values : Sound(o) /\ PushBackNoMemory(o, v)
  \/ \E o \in Objs : \E k \in Offsets(o), v \in Values :
        Sound(o) /\ InsertNoMemory(o, k, v)
  \/ \E o \in Objs, n \in 0..memory : Sound(o) /\ ResizeNoMemory(o, n)
  \/ \E a \in Objs, b \in Objs : Sound(a) /\ Sound(b) /\ CopyAssignNoMemory(a, b)
  \/ \E a \in Objs, b \in Objs : Sound(a) /\ Sound(b) /\ PlusAssignNoMemory(a, b)

SpecAlloc == InitAlloc /\ [][NextAlloc]_vars

\* A program that builds container 1, copy-constructs container 2 from it and
\* goes on changing the one and the other.
InitCopy ==
  /\ obj = [o \in Objs |-> Dead]
  /\ heap = [p \in BufIds |-> FreeBlock]
  /\ memory = HeapCellsTwo
  /\ watch = Constructions \cup Unary
  /\ lastCall = NoCall
  /\ halted = FALSE

NextCopy ==
  \/ \E n \in 0..memory : \E s \in [1..n -> Values] : ConstructList(1, s)
  \/ CopyConstruct(2, 1)
  \/ \E o \in Objs : Destroy(o)
  \/ \E o \in Objs : \E pos \in Positions(o), v \in Values : Assign(o, pos, v)
  \/ \E o \in Objs, v \in Values : PushBack(o, v)
  \/ \E o \in Objs : \E k \in Offsets(o), v \in Values : Insert(o, k, v)
  \/ \E o \in Objs : \E k \in Offsets(o) : Erase(o, k)
  \/ \E o \in Objs : Clear(o)

SpecCopy == InitCopy /\ [][NextCopy]_vars

\* ---------------------------------------------------------------- properties
\* The sequence s with v put before offset k, and s without the element at
\* offset k.
Inserted(s, k, v) == SubSeq(s, 1, k) \o <<v>> \o SubSeq(s, k + 1, Len(s))
Removed(s, k)     == SubSeq(s, 1, k) \o SubSeq(s, k + 2, Len(s))

\* The last call left every container as it found it, buffers included.
SameAsBefore ==
  /\ \A o \in Objs : View(o) = lastCall.pre[o]
  /\ ~lastCall.realloc
  /\ \A o \in Objs : lastCall.from[o] = IF obj[o].m_data = NULL THEN 0 ELSE o

\* C1: in every reachable state of a program with two containers, whatever
\* constructions and calls led to it, each container has size <= capacity.
C1_SizeWithinCapacity ==
  \A o \in Objs : 0 <= obj[o].m_size /\ obj[o].m_size <= obj[o].m_capacity

\* A copy-assignment between two containers of equal capacity has shrunk a
\* full container below its capacity.
C1_Witness ==
  /\ lastCall.op = "copy_assign" /\ lastCall.a # lastCall.b /\ ~lastCall.realloc
  /\ lastCall.pre[lastCall.a].size = lastCall.pre[lastCall.a].cap
  /\ lastCall.pre[lastCall.a].size > 0
  /\ obj[lastCall.a].m_size < obj[lastCall.a].m_capacity
  /\ obj[lastCall.b].live

\* C2: after N push_back calls in a row on a container that was empty, with
\* values v1..vN, size is N, capacity >= size and the elements are v1..vN
\* in this order; and every push_back leaves the elements that were there
\* unchanged, whether it reallocates or not.
C2_PushBackRun ==
  lastCall.op = "push_back" =>
    LET now == View(lastCall.a)
        was == lastCall.pre[lastCall.a]
    IN /\ lastCall.res = "ok"
       /\ now.size = was.size + 1
       /\ SubSeq(now.elems, 1, was.size) = was.elems
       /\ now.elems[now.size] = lastCall.v
       /\ lastCall.run # NoRun =>
            /\ now.size = Len(lastCall.run)
            /\ now.cap >= now.size
            /\ now.elems = lastCall.run

\* The third push_back of a run has reallocated a buffer of two elements.
C2_Witness ==
  /\ lastCall.op = "push_back" /\ lastCall.realloc
  /\ lastCall.run = <<1, 0, 1>>
  /\ lastCall.pre[lastCall.a].cap = 2

\* C3: insert at any offset k in [0, size], in every state of the container
\* (size == capacity and capacity == 0 included), succeeds, leaves the old
\* elements [0,k), then value, then the old elements [k, size), size grown
\* by one, and returns offset k.
C3_InsertInRange ==
  (lastCall.op = "insert" /\ 0 <= lastCall.k
     /\ lastCall.k <= lastCall.pre[lastCall.a].size) =>
    LET now == View(lastCall.a)
        was == lastCall.pre[lastCall.a]
    IN /\ lastCall.res = "ok"
       /\ now.elems = Inserted(was.elems, lastCall.k, lastCall.v)
       /\ now.size = was.size + 1
       /\ lastCall.ret = lastCall.k

\* C4: erase at the offset of any live element (the first included) removes
\* that element, and an insert of the removed value at the same offset right
\* after it restores the sequence that was there before the erase.
C4_EraseInsertRestores ==
  /\ (lastCall.op = "erase" /\ 0 <= lastCall.k
        /\ lastCall.k < lastCall.pre[lastCall.a].size) =>
       /\ lastCall.res = "ok"
       /\ View(lastCall.a).elems = Removed(lastCall.pre[lastCall.a].elems, lastCall.k)
  /\ (lastCall.op = "insert" /\ lastCall.undo # NoUndo) =>
       View(lastCall.a).elems = lastCall.undo

\* C5: erase at offset k in [1, size) removes the element at k, keeps the
\* elements before it, moves every later element one index down, makes size
\* one less, keeps the capacity and the buffer, and returns offset k.
C5_EraseInside ==
  (lastCall.op = "erase" /\ 1 <= lastCall.k
     /\ lastCall.k < lastCall.pre[lastCall.a].size) =>
    LET now == View(lastCall.a)
        was == lastCall.pre[lastCall.a]
    IN /\ lastCall.res = "ok" /\ ~lastCall.ub
       /\ now.elems = Removed(was.elems, lastCall.k)
       /\ now.size = was.size - 1
       /\ now.cap = was.cap
       /\ ~lastCall.realloc /\ lastCall.from[lastCall.a] = lastCall.a
       /\ lastCall.ret = lastCall.k
       /\ lastCall.ret <= now.size

\* The middle one of three elements was erased.
C5_Witness ==
  /\ lastCall.op = "erase" /\ lastCall.k = 1 /\ lastCall.res = "ok"
  /\ lastCall.pre[lastCall.a].elems = <<0, 1, 0>>
  /\ View(lastCall.a).elems = <<0, 0>>

\* C6: erase at an offset k >= size (end() of a non-empty container, any
\* position of an empty one) fails with out_of_range and leaves size,
\* capacity and contents unchanged.
C6_EraseAtOrPastEnd ==
  (lastCall.op = "erase" /\ lastCall.k >= lastCall.pre[lastCall.a].size) =>
    /\ lastCall.res = "out_of_range"
    /\ SameAsBefore

\* C7: insert at an offset before begin() or after end() fails with
\* out_of_range and leaves size, capacity, contents and the buffer as they
\* were, also when size == capacity.
C7_InsertOutside ==
  (lastCall.op = "insert"
     /\ (lastCall.k < 0 \/ lastCall.k > lastCall.pre[lastCall.a].size)) =>
    /\ lastCall.res = "out_of_range"
    /\ SameAsBefore

\* An insert one past end() was refused on a full container of two elements.
C7_Witness ==
  /\ lastCall.op = "insert" /\ lastCall.res = "out_of_range"
  /\ lastCall.pre[lastCall.a].size = 2 /\ lastCall.pre[lastCall.a].cap = 2
  /\ lastCall.k = 3

\* C8: at(pos) fails with out_of_range exactly when pos >= size(); otherwise
\* it returns the element at index pos; in both cases the container is left
\* unchanged.
C8_At ==
  lastCall.op = "at" =>
    LET was == lastCall.pre[lastCall.a] IN
    /\ lastCall.res = "out_of_range" <=> lastCall.k >= was.size
    /\ lastCall.k < was.size =>
         lastCall.res = "ok" /\ lastCall.ret = was.elems[lastCall.k + 1]
    /\ SameAsBefore

\* at(1) has returned the last of two elements.
C8_Witness ==
  /\ lastCall.op = "at" /\ lastCall.k = 1 /\ lastCall.res = "ok"
  /\ lastCall.pre[lastCall.a].elems = <<0, 1>>
  /\ lastCall.ret = 1

\* C9: a push_back or an insert (at a position in range) on a container with
\* size == capacity == c leaves capacity 1 if c == 0 and 2c otherwise; on a
\* container with size < capacity it leaves the capacity and the buffer.
C9_Doubling ==
  (lastCall.op \in {"push_back", "insert"} /\ lastCall.res # "out_of_range") =>
    LET now == View(lastCall.a)
        was == lastCall.pre[lastCall.a]
    IN IF was.size = was.cap
       THEN now.cap = (IF was.cap = 0 THEN 1 ELSE 2 * was.cap)
       ELSE /\ now.cap = was.cap
            /\ ~lastCall.realloc /\ lastCall.from[lastCall.a] = lastCall.a

\* A push_back on a full container of two elements has made its capacity four.
C9_Witness ==
  /\ lastCall.op = "push_back" /\ lastCall.realloc
  /\ lastCall.pre[lastCall.a].size = 2 /\ lastCall.pre[lastCall.a].cap = 2
  /\ View(lastCall.a).cap = 4

\* C10: a + b has the elements of a followed by those of b, and size
\* a.size() + b.size(), and leaves a and b unchanged; a += b leaves a with
\* that size and those elements, and b unchanged.
C10_Concatenation ==
  LET x    == lastCall.pre[lastCall.a]
      y    == lastCall.pre[lastCall.b]
  IN /\ lastCall.op = "plus" =>
          /\ lastCall.out = x.elems \o y.elems
          /\ lastCall.ret = x.size + y.size
          /\ SameAsBefore
     /\ lastCall.op = "plus_assign" =>
          /\ View(lastCall.a).elems = x.elems \o y.elems
          /\ View(lastCall.a).size = x.size + y.size
          /\ \A o \in Objs : o # lastCall.a => View(o) = lastCall.pre[o]

\* a += b has appended the one element of b in the spare slot of a.
C10_Witness ==
  /\ lastCall.op = "plus_assign" /\ lastCall.a # lastCall.b /\ ~lastCall.realloc
  /\ lastCall.pre[lastCall.a].elems = <<1>> /\ lastCall.pre[lastCall.a].cap = 2
  /\ lastCall.pre[lastCall.b].elems = <<0>>
  /\ View(lastCall.a).elems = <<1, 0>>

\* The calls that change the elements of one container.
Mutations == {"push_back", "insert", "erase", "assign"}

\* C11: a container y copy-constructed from x compares equal to x, has the
\* size of x, leaves x unchanged and holds a new buffer of its own; and every
\* later push_back, insert, erase or element write on the one of them leaves
\* the size and the elements of the other as they were.
C11_CopyIsDeep ==
  /\ lastCall.op = "copy_construct" =>
       /\ Equal(heap, obj[lastCall.a], obj[lastCall.b])
       /\ obj[lastCall.a].m_size = obj[lastCall.b].m_size
       /\ View(lastCall.b) = lastCall.pre[lastCall.b]
       /\ obj[lastCall.a].m_data # obj[lastCall.b].m_data
       /\ lastCall.from[lastCall.a] = 0 - 1
  /\ lastCall.op \in Mutations =>
       \A o \in Objs : o # lastCall.a =>
          /\ View(o).size = lastCall.pre[o].size
          /\ View(o).elems = lastCall.pre[o].elems

\* What a caller observes of a container in the empty state.
EmptyView == [live |-> TRUE, size |-> 0, cap |-> 0, null |-> TRUE, elems |-> <<>>]

\* C12: a move construction or a move assignment from another container x
\* gives the destination the buffer, the size and the capacity of x, so its
\* elements are those x had, and leaves x empty (size 0, capacity 0, null
\* buffer); a move assignment of a container to itself changes nothing.
C12_Move ==
  lastCall.op \in {"move_construct", "move_assign"} =>
    IF lastCall.a # lastCall.b
    THEN LET x == lastCall.pre[lastCall.b] IN
         /\ View(lastCall.a).elems = x.elems
         /\ View(lastCall.a).size = x.size
         /\ View(lastCall.a).cap = x.cap
         /\ lastCall.from[lastCall.a] = (IF x.null THEN 0 ELSE lastCall.b)
         /\ View(lastCall.b) = EmptyView
    ELSE SameAsBefore

\* A move assignment has handed a buffer with a spare slot to a container
\* that held elements of its own.
C12_Witness ==
  /\ lastCall.op = "move_assign" /\ lastCall.a # lastCall.b
  /\ lastCall.pre[lastCall.a].elems = <<0>>
  /\ lastCall.pre[lastCall.b].elems = <<1>> /\ lastCall.pre[lastCall.b].cap = 2
  /\ View(lastCall.a).elems = <<1>> /\ View(lastCall.a).cap = 2
  /\ View(lastCall.b) = EmptyView

\* C13: resize(n) on a container of size s leaves the first n old elements
\* when n < s, the s old elements followed by n - s default values when
\* n > s, and the elements as they were when n = s; the size is n afterwards.
C13_ResizeContents ==
  lastCall.op = "resize" =>
    LET now == View(lastCall.a)
        was == lastCall.pre[lastCall.a]
        n   == lastCall.k
    IN /\ lastCall.res = "ok"
       /\ now.size = n
       /\ n < was.size => now.elems = SubSeq(was.elems, 1, n)
       /\ n > was.size => now.elems = was.elems \o [i \in 1..(n - was.size) |-> Default]
       /\ n = was.size => now.elems = was.elems

\* resize(3) has appended two default values to a container of one element.
C13_Witness ==
  /\ lastCall.op = "resize" /\ lastCall.k = 3
  /\ lastCall.pre[lastCall.a].elems = <<1>>
  /\ View(lastCall.a).elems = <<1, 0, 0>>

\* C14 as stated: after every resize(count), from every state of the
\* container, the capacity is count, and so equal to the size.
C14_ResizeExactFit ==
  lastCall.op = "resize" =>
    /\ View(lastCall.a).cap = lastCall.k
    /\ View(lastCall.a).cap = View(lastCall.a).size

\* C14, amended: resize(count) with count # size() moves the elements to a
\* new buffer of exactly count slots, so capacity = size = count afterwards;
\* resize(count) with count = size() changes nothing, so the capacity stays
\* what it was, spare slots included.
C14_ResizeExactFitUnlessSameSize ==
  lastCall.op = "resize" =>
    LET now == View(lastCall.a)
        was == lastCall.pre[lastCall.a]
    IN /\ now.size = lastCall.k
       /\ IF was.size # lastCall.k
          THEN /\ now.cap = lastCall.k
               /\ lastCall.realloc /\ lastCall.from[lastCall.a] = 0 - 1
          ELSE /\ now.cap = was.cap
               /\ SameAsBefore

\* resize(1) on a container of one element and two slots has left it two
\* slots.
C14_Witness ==
  /\ lastCall.op = "resize" /\ lastCall.k = 1
  /\ lastCall.pre[lastCall.a].size = 1 /\ lastCall.pre[lastCall.a].cap = 2
  /\ View(lastCall.a).size = 1 /\ View(lastCall.a).cap = 2

\* C15: after a = b with a and b distinct, a has the size, the elements and
\* the capacity of b, and b is as it was; a's buffer is reallocated exactly
\* when the capacities differed before the call, and is the buffer a held
\* otherwise; a = a changes nothing.
C15_CopyAssign ==
  lastCall.op = "copy_assign" =>
    IF lastCall.a # lastCall.b
    THEN LET now == View(lastCall.a)
             was == lastCall.pre[lastCall.a]
             rhs == lastCall.pre[lastCall.b]
         IN /\ now.size = rhs.size
            /\ now.elems = rhs.elems
            /\ now.cap = rhs.cap
            /\ View(lastCall.b) = rhs
            /\ lastCall.realloc <=> was.cap # rhs.cap
            /\ ~lastCall.realloc =>
                 lastCall.from[lastCall.a] = (IF was.null THEN 0 ELSE lastCall.a)
    ELSE SameAsBefore

\* a = b has replaced the two slots of a by a copy of the one slot of b.
C15_Witness ==
  /\ lastCall.op = "copy_assign" /\ lastCall.a # lastCall.b /\ lastCall.realloc
  /\ lastCall.pre[lastCall.a].elems = <<0, 1>>
  /\ lastCall.pre[lastCall.b].elems = <<1>>
  /\ View(lastCall.a).elems = <<1>> /\ View(lastCall.a).cap = 1

\* C16: when the allocation fails inside push_back, insert, resize, += or
\* copy assignment, the caller gets the failure and every container has the
\* size, the capacity, the buffer and the elements it had before the call.
C16_AllocationFailure ==
  lastCall.res = "bad_alloc" => SameAsBefore

\* The containers that hold block p.
Holders(p) == {o \in Objs : obj[o].live /\ obj[o].m_data = p}

\* C17: whatever constructions, destructions and calls led to a state, every
\* block that is allocated is held by exactly one live container, and every
\* buffer a live container holds is an allocated block.
C17_Ownership ==
  /\ \A p \in BufIds : heap[p].alloc => Cardinality(Holders(p)) = 1
  /\ \A o \in Objs : (obj[o].live /\ obj[o].m_data # NULL) => heap[obj[o].m_data].alloc

====
